---- MODULE Spec2Model ----
(***************************************************************************)
(* Model of the SPARTN frame decoder (package spartn): DeserializeFrame    *)
(* and its parts reading from a bufio.Reader, the whole-frame checksums    *)
(* selected by MessageCRCType, and the package-level FrameHash.            *)
(***************************************************************************)
EXTENDS Integers, Sequences, FiniteSets, TLC

(* ---------------------------------------------------------------------- *)
(* Bounds of the model                                                    *)
(* ---------------------------------------------------------------------- *)

\* size of the bufio.Reader buffer (bufio.NewReaderSize never goes below 16)
BufSize == 16

\* MessageCRCType is a uint8; the direct calls take selectors 0..MaxCRCType
MaxCRCType == 5

(* ---------------------------------------------------------------------- *)
(* Unsigned arithmetic of the Go code                                     *)
(* ---------------------------------------------------------------------- *)

RECURSIVE Pow2(_)
Pow2(n) == IF n = 0 THEN 1 ELSE 2 * Pow2(n - 1)

\* x & y on unsigned integers
RECURSIVE BitAnd(_, _)
BitAnd(x, y) ==
  IF x = 0 \/ y = 0 THEN 0
  ELSE (x % 2) * (y % 2) + 2 * BitAnd(x \div 2, y \div 2)

\* x << n on an unsigned integer of width w
Shl(x, n, w) == (x % Pow2(w - n)) * Pow2(n)

\* x >> n
Shr(x, n) == x \div Pow2(n)

\* An unsigned value wider than 16 bits is held as its bits, most
\* significant first (uint32 and the CRC registers).
RECURSIVE Bits(_, _)
Bits(v, w) == IF w = 0 THEN << >> ELSE Append(Bits(v \div 2, w - 1), v % 2)

RECURSIVE ToInt(_)
ToInt(bs) ==
  IF bs = << >> THEN 0
  ELSE 2 * ToInt(SubSeq(bs, 1, Len(bs) - 1)) + bs[Len(bs)]

Zeros(n) == [i \in 1..n |-> 0] \o << >>
Ones(n) == [i \in 1..n |-> 1] \o << >>

\* x & y and x ^ y on bits (as sequences)
AndB(x, y) == [i \in 1..Len(x) |-> x[i] * y[i]] \o << >>
XorB(x, y) == [i \in 1..Len(x) |-> (x[i] + y[i]) % 2] \o << >>
ShlB(x, n) == SubSeq(x, n + 1, Len(x)) \o Zeros(n)

\* uint32(v) of a narrower value held as bits
U32(bs) == Zeros(32 - Len(bs)) \o bs

(* ---------------------------------------------------------------------- *)
(* CRC engine (github.com/snksoft/crc, as parametrised by this package)   *)
(* ---------------------------------------------------------------------- *)

\* one input byte through an unreflected CRC register reg (width Len(reg))
RECURSIVE CRCShift(_, _, _)
CRCShift(reg, poly, k) ==
  IF k = 0 THEN reg
  ELSE IF reg[1] = 1 THEN CRCShift(XorB(ShlB(reg, 1), poly), poly, k - 1)
  ELSE CRCShift(ShlB(reg, 1), poly, k - 1)

CRCByte(reg, poly, byte) ==
  CRCShift(XorB(reg, Bits(byte, 8) \o Zeros(Len(reg) - 8)), poly, 8)

\* crc.Hash.Update: the register after the bytes of data
RECURSIVE CRCUpdate(_, _, _)
CRCUpdate(reg, poly, data) ==
  IF data = << >> THEN reg
  ELSE LET next == CRCByte(reg, poly, Head(data))
       IN IF Len(next) = Len(reg) THEN CRCUpdate(next, poly, Tail(data)) ELSE << >>

\* crc.Parameters of the five hashes of the package: Width, Polynomial,
\* Init, FinalXor (a zero field is left out in the source)
FrameHashParams == [poly |-> Bits(9, 8), init |-> Zeros(8), xor |-> Zeros(8)]
CRC8CCITTParams == [poly |-> Bits(7, 8), init |-> Zeros(8), xor |-> Zeros(8)]
CRC16CCITTParams == [poly |-> Bits(4129, 16), init |-> Zeros(16), xor |-> Zeros(16)]
CRC24Radix64Params ==
  [poly |-> Bits(8801531, 24), init |-> Zeros(24), xor |-> Zeros(24)]
CRC32CCITTParams == [poly |-> Bits(79764919, 32), init |-> Ones(32), xor |-> Ones(32)]

CRCParams(t) ==
  CASE t = 0 -> CRC8CCITTParams
    [] t = 1 -> CRC16CCITTParams
    [] t = 2 -> CRC24Radix64Params
    [] t = 3 -> CRC32CCITTParams

\* hash.CalculateCRC(data) on a hash made for the call: Reset, Update, CRC
HashCalculate(p, data) == XorB(CRCUpdate(p.init, p.poly, data), p.xor)

\* MessageCRCType.CalculateCRC: (c, err)
CalculateCRC(t, data) ==
  IF t \in 0..3
  THEN [c |-> U32(HashCalculate(CRCParams(t), data)), err |-> "nil"]
  ELSE [c |-> Zeros(32), err |-> "invalid CRC type"]

(* ---------------------------------------------------------------------- *)
(* bufio.Reader, as far as the decoder uses it.  A reader is              *)
(*   [buf, r, w, err, rd]: the buffer (indexed from 0), the read and      *)
(*   write positions, the pending error and the underlying io.Reader.     *)
(* rd is [data, partial]: the bytes the stream still holds, and whether   *)
(* one Read of it may deliver fewer bytes than asked and available.       *)
(* ---------------------------------------------------------------------- *)

Min(a, b) == IF a < b THEN a ELSE b

NewReader(data, partial) ==
  [buf |-> [i \in 0..(BufSize - 1) |-> 0], r |-> 0, w |-> 0, err |-> "nil",
   rd |-> [data |-> data, partial |-> partial]]

Buffered(b) == b.w - b.r

\* b.buf[lo:hi] as a sequence
BufSlice(b, lo, hi) == [i \in 1..(hi - lo) |-> b.buf[lo + i - 1]]

\* the bytes the reader has not handed out yet: buffered, then in the stream
Unread(b) == BufSlice(b, b.r, b.w) \o b.rd.data

\* copy(b.buf, b.buf[b.r:b.w]); b.w -= b.r; b.r = 0
Slide(b) ==
  IF b.r > 0
  THEN [b EXCEPT !.buf = [i \in 0..(BufSize - 1) |->
                            IF i < b.w - b.r THEN b.buf[i + b.r] ELSE b.buf[i]],
                 !.w = b.w - b.r, !.r = 0]
  ELSE b

\* the sizes one Read of the underlying reader may return for a request of
\* m bytes that are available
ReadSizes(rd, m) == IF rd.partial THEN 1..m ELSE {m}

\* fill: slide, then one Read of the underlying reader into b.buf[b.w:]
Fill(b) ==
  LET s == Slide(b)
      m == Min(BufSize - s.w, Len(s.rd.data))
  IN IF Len(s.rd.data) = 0
     THEN {[s EXCEPT !.err = "EOF"]}
     ELSE {[s EXCEPT !.buf = [i \in 0..(BufSize - 1) |->
                                IF i >= s.w /\ i < s.w + n
                                THEN s.rd.data[i - s.w + 1] ELSE s.buf[i]],
                     !.w = s.w + n,
                     !.rd.data = SubSeq(s.rd.data, n + 1, Len(s.rd.data))]
           : n \in ReadSizes(s.rd, m)}

\* for b.w-b.r < n && b.w-b.r < len(b.buf) && b.err == nil { b.fill() }
RECURSIVE PeekFill(_, _)
PeekFill(b, n) ==
  IF Buffered(b) < n /\ Buffered(b) < BufSize /\ b.err = "nil"
  THEN UNION {PeekFill(b2, n) : b2 \in Fill(b)}
  ELSE {b}

\* a slice of the reader's buffer: b.buf[off : off+len], capacity to the end
BufRef(off, len) == [off |-> off, len |-> len]

\* Peek(n), n <= len(b.buf): the outcomes [b, s, err]
Peek(b, n) ==
  {IF Buffered(f) < n
   THEN [b |-> [f EXCEPT !.err = "nil"], s |-> BufRef(f.r, Buffered(f)),
         err |-> IF f.err = "nil" THEN "ErrBufferFull" ELSE f.err]
   ELSE [b |-> f, s |-> BufRef(f.r, n), err |-> "nil"]
   : f \in PeekFill(b, n)}

\* Discard(n), n > 0: the outcomes [b, err]
RECURSIVE DiscardLoop(_, _)
DiscardLoop(b, remain) ==
  UNION {LET skip == Min(Buffered(f), remain)
             g == [f EXCEPT !.r = f.r + skip]
         IN IF remain - skip = 0 THEN {[b |-> g, err |-> "nil"]}
            ELSE IF g.err # "nil"
                 THEN {[b |-> [g EXCEPT !.err = "nil"], err |-> g.err]}
                 ELSE DiscardLoop(g, remain - skip)
         : f \in IF Buffered(b) = 0 THEN Fill(b) ELSE {b}}

Discard(b, n) == DiscardLoop(b, n)

\* ReadByte: the outcomes [b, c, err]
RECURSIVE ReadByte(_)
ReadByte(b) ==
  IF b.r = b.w
  THEN IF b.err # "nil"
       THEN {[b |-> [b EXCEPT !.err = "nil"], c |-> 0, err |-> b.err]}
       ELSE UNION {ReadByte(f) : f \in Fill(b)}
  ELSE {[b |-> [b EXCEPT !.r = b.r + 1], c |-> b.buf[b.r], err |-> "nil"]}

\* copy(p, b.buf[b.r:b.w]) into a fresh p of length len: p afterwards
CopyOut(b, len, n) == [i \in 1..len |-> IF i <= n THEN b.buf[b.r + i - 1] ELSE 0]

\* Read(p) for p := make([]byte, len): the outcomes [b, p, n, err]
Read(b, len) ==
  IF len = 0
  THEN IF Buffered(b) > 0
       THEN {[b |-> b, p |-> << >>, n |-> 0, err |-> "nil"]}
       ELSE {[b |-> [b EXCEPT !.err = "nil"], p |-> << >>, n |-> 0, err |-> b.err]}
  ELSE IF b.r = b.w
  THEN IF b.err # "nil"
       THEN {[b |-> [b EXCEPT !.err = "nil"], p |-> Zeros(len), n |-> 0, err |-> b.err]}
       ELSE IF len >= BufSize
       THEN \* large read, empty buffer: read directly into p
            IF Len(b.rd.data) = 0
            THEN {[b |-> b, p |-> Zeros(len), n |-> 0, err |-> "EOF"]}
            ELSE {[b |-> [b EXCEPT !.rd.data = SubSeq(b.rd.data, n + 1, Len(b.rd.data))],
                   p |-> [i \in 1..len |-> IF i <= n THEN b.rd.data[i] ELSE 0],
                   n |-> n, err |-> "nil"]
                  : n \in ReadSizes(b.rd, Min(len, Len(b.rd.data)))}
       ELSE \* one read into the buffer (b.r = b.w = 0), then copy
            IF Len(b.rd.data) = 0
            THEN {[b |-> [b EXCEPT !.r = 0, !.w = 0], p |-> Zeros(len), n |-> 0,
                   err |-> "EOF"]}
            ELSE {LET g == [b EXCEPT !.r = 0, !.w = k,
                              !.buf = [i \in 0..(BufSize - 1) |->
                                         IF i < k THEN b.rd.data[i + 1] ELSE b.buf[i]],
                              !.rd.data = SubSeq(b.rd.data, k + 1, Len(b.rd.data))]
                      n == Min(len, k)
                  IN [b |-> [g EXCEPT !.r = n], p |-> CopyOut(g, len, n), n |-> n,
                      err |-> "nil"]
                  : k \in ReadSizes(b.rd, Min(BufSize, Len(b.rd.data)))}
  ELSE LET n == Min(len, Buffered(b))
       IN {[b |-> [b EXCEPT !.r = b.r + n], p |-> CopyOut(b, len, n), n |-> n,
            err |-> "nil"]}

(* ---------------------------------------------------------------------- *)
(* Slices.  A []byte of the decoder is nil, a slice of the reader's       *)
(* buffer (BufRef: it shares the buffer's memory and its capacity runs to *)
(* the end of the buffer) or a slice of its own array (Own).              *)
(* ---------------------------------------------------------------------- *)

NilSlice == [mem |-> "nil"]
Own(data) == [mem |-> "own", data |-> data]
IsBufRef(s) == "off" \in DOMAIN s

SliceBytes(b, s) ==
  IF IsBufRef(s) THEN BufSlice(b, s.off, s.off + s.len)
  ELSE IF s.mem = "own" THEN s.data ELSE << >>

\* append(s, x...): [b, s] afterwards.  Within capacity the bytes are written
\* behind s in place, into the reader's buffer when s is a slice of it.
AppendSlice(b, s, x) ==
  IF IsBufRef(s) /\ s.off + s.len + Len(x) <= BufSize
  THEN [b |-> [b EXCEPT !.buf = [i \in 0..(BufSize - 1) |->
                                   IF i >= s.off + s.len /\ i < s.off + s.len + Len(x)
                                   THEN x[i - (s.off + s.len) + 1] ELSE b.buf[i]]],
        s |-> BufRef(s.off, s.len + Len(x))]
  ELSE [b |-> b, s |-> Own(SliceBytes(b, s) \o x)]

(* ---------------------------------------------------------------------- *)
(* The wire layout (fields packed most significant bit first) and the     *)
(* inputs of the model                                                    *)
(* ---------------------------------------------------------------------- *)

FramePreamble == 115

\* the bytes of a bit string whose length is a multiple of 8
RECURSIVE BytesOf(_)
BytesOf(bs) ==
  IF bs = << >> THEN << >>
  ELSE <<ToInt(SubSeq(bs, 1, 8))>> \o BytesOf(SubSeq(bs, 9, Len(bs)))

HeaderBits(f) ==
  Bits(f.MessageType, 7) \o Bits(f.PayloadLength, 10) \o Bits(f.EAF, 1)
    \o Bits(f.MessageCRCType, 2)

\* the first two header bytes, which the header checksum covers
HeaderStart(f) == SubSeq(BytesOf(HeaderBits(f) \o Zeros(4)), 1, 2)

EncodeHeader(f) == BytesOf(HeaderBits(f) \o Bits(f.HeaderCRC, 4))

EncodePayloadDescription(f) ==
  BytesOf(Bits(f.MessageSubtype, 4) \o Bits(f.TimeTagType, 1)
            \o Bits(f.TimeTag, IF f.TimeTagType = 1 THEN 32 ELSE 16)
            \o Bits(f.SolutionID, 7) \o Bits(f.SolutionProcessorID, 4)
            \o Bits(f.EncryptionID, 4) \o Bits(f.EncryptionSequenceNumber, 6)
            \o Bits(f.AuthenticationIndicator, 3)
            \o Bits(f.EmbeddedAuthenticationLength, 3))

PayloadBytes(f) == [i \in 1..f.PayloadLength |-> 160 + i]
AuthBytes(f) == [i \in 1..f.EmbeddedAuthenticationLength |-> 192 + i]

\* header, payload description, payload and authentication data
FrameBody(f) ==
  EncodeHeader(f) \o EncodePayloadDescription(f) \o PayloadBytes(f) \o AuthBytes(f)

CRCWidth(t) == 8 * (t + 1)

\* the trailing checksum of the body, most significant byte first
EncodeMessageCRC(f) ==
  BytesOf(HashCalculate(CRCParams(f.MessageCRCType), FrameBody(f)))

EncodeFrame(f) == <<FramePreamble>> \o FrameBody(f) \o EncodeMessageCRC(f)

\* the header checksum the decoder computes for the header of f, as a number
HeaderChecksum(f) == ToInt(HashCalculate(FrameHashParams, HeaderStart(f)))

ZeroFields ==
  [MessageType |-> 0, PayloadLength |-> 0, EAF |-> 0, MessageCRCType |-> 0,
   HeaderCRC |-> 0, MessageSubtype |-> 0, TimeTagType |-> 0, TimeTag |-> 0,
   SolutionID |-> 0, SolutionProcessorID |-> 0, EncryptionID |-> 0,
   EncryptionSequenceNumber |-> 0, AuthenticationIndicator |-> 0,
   EmbeddedAuthenticationLength |-> 0]

\* the header checksum field that matches, or the one next to it
WithHeaderCRC(f, delta) ==
  [f EXCEPT !.HeaderCRC = (HeaderChecksum(f) + delta) % 16]

\* frames that differ in the header and in the lengths
HeaderFrames ==
  {[ZeroFields EXCEPT !.MessageType = hp[1], !.PayloadLength = hp[2],
                      !.EAF = IF eal > 0 THEN 1 ELSE 0, !.MessageCRCType = t,
                      !.EmbeddedAuthenticationLength = eal]
   : hp \in {<<0, 0>>, <<0, 2>>, <<1, 0>>}, t \in 0..3, eal \in {0, 3}}

\* frames that differ in the payload description
DescriptionFrames ==
  {[ZeroFields EXCEPT !.MessageCRCType = t, !.MessageSubtype = o[1],
                      !.TimeTagType = ttt, !.TimeTag = tt, !.SolutionID = o[2],
                      !.SolutionProcessorID = o[3], !.EncryptionID = o[4],
                      !.EncryptionSequenceNumber = o[5],
                      !.AuthenticationIndicator = o[6]]
   : t \in {0, 1}, ttt \in {0, 1}, tt \in {0, 26210},
     o \in {<<0, 0, 0, 0, 0, 0>>, <<9, 85, 10, 5, 51, 5>>}}

FrameFields == {WithHeaderCRC(f, 0) : f \in HeaderFrames \cup DescriptionFrames}

\* what follows a frame in the stream: nothing, or the start of another frame
Tails == {<< >>, <<FramePreamble, 0>>}

\* the stream of a frame with one part spoiled
Spoil(f, mut) ==
  CASE mut = "none" -> EncodeFrame(f)
    [] mut = "preamble" -> <<FramePreamble + 1>> \o Tail(EncodeFrame(f))
    [] mut = "header" -> <<FramePreamble>> \o FrameBody(WithHeaderCRC(f, 1))
                           \o EncodeMessageCRC(f)
    [] mut = "crc" -> LET e == EncodeFrame(f)
                      IN [e EXCEPT ![Len(e)] = (e[Len(e)] + 1) % 256]

\* what a call is given: the entry point, the stream (bytes) and how its
\* reader delivers (partial), the selector t of the calls that take one; and
\* how the stream was made: the fields f of the frame, the part spoiled (mut)
\* and the number of bytes of the frame that the stream holds (cut)
Input(entry, f, mut, bytes, cut, partial, t) ==
  [entry |-> entry, f |-> f, mut |-> mut, bytes |-> bytes, cut |-> cut,
   partial |-> partial, t |-> t, len |-> Len(EncodeFrame(f))]

\* whole frames, spoiled frames, with and without a tail
FrameInputs ==
  {Input("DeserializeFrame", f, mut, Spoil(f, mut) \o tl, Len(Spoil(f, mut)), p, 0)
   : f \in FrameFields, mut \in {"none", "preamble", "header", "crc"},
     tl \in Tails, p \in BOOLEAN}

\* well-formed frames cut short at every offset before their end
TruncatedInputs ==
  UNION {{Input("DeserializeFrame", f, "none", SubSeq(EncodeFrame(f), 1, cut), cut, p, 0)
          : cut \in 0..(Len(EncodeFrame(f)) - 1)}
         : f \in FrameFields, p \in BOOLEAN}

\* the parts of the decoder called on their own, at the place in the stream
\* where DeserializeFrame calls them
PartInputs ==
  {Input("DeserializeFrameStart", f, mut,
         SubSeq(Spoil(f, mut), 2, Len(Spoil(f, mut))) \o tl, Len(Spoil(f, mut)), p, 0)
   : f \in FrameFields, mut \in {"none", "header"}, tl \in Tails, p \in BOOLEAN}
  \cup
  {Input("DeserializePayloadDescriptionBlock", f, "none",
         SubSeq(EncodeFrame(f), 5, Len(EncodeFrame(f))) \o tl, Len(EncodeFrame(f)), p, 0)
   : f \in FrameFields, tl \in Tails, p \in BOOLEAN}

\* byte strings for the calls that take a selector
RawBytes == {1, 165}
MaxRaw == 4
RawStreams == UNION {[1..n -> RawBytes] : n \in 0..MaxRaw}

SelectorInputs ==
  {Input(e, WithHeaderCRC(ZeroFields, 0), "raw", bs, Len(bs), p, t)
   : e \in {"DeserializeMessageCRC", "CalculateCRC"}, bs \in RawStreams,
     p \in BOOLEAN, t \in 0..MaxCRCType}

\* a stream whose decode can succeed after a short read of the
\* authentication data: a frame with 3 bytes of authentication data and an
\* 8-bit checksum, holding in the place of the third authentication byte the
\* checksum of the frame with that byte taken as 0, and ending there
ShortAuthFrame ==
  WithHeaderCRC([ZeroFields EXCEPT !.EAF = 1, !.EmbeddedAuthenticationLength = 3], 0)

ShortAuthStream ==
  LET body == FrameBody(ShortAuthFrame)
      seen == SubSeq(body, 1, Len(body) - 1)
  IN <<FramePreamble>> \o seen
       \o <<ToInt(HashCalculate(CRC8CCITTParams, seen \o <<0>>))>>

ShortReadInputs ==
  {Input("DeserializeFrame", ShortAuthFrame, "short", ShortAuthStream,
         Len(ShortAuthStream), p, 0) : p \in BOOLEAN}

\* frames that DeserializeFrame accepts when they are followed by more data:
\* the minimal frame, and the frame with TimeTag 26210
FlipFrames ==
  {f \in FrameFields :
     /\ f.MessageType = 0 /\ f.PayloadLength = 0 /\ f.MessageCRCType = 0
     /\ f.EmbeddedAuthenticationLength = 0 /\ f.TimeTagType = 0
     /\ f.MessageSubtype = 0}

\* the stream with bit k (0 the most significant of the first byte) of the
\* three header bytes flipped
FlipHeaderBit(bytes, k) ==
  LET i == 2 + (k \div 8)
      m == Pow2(7 - (k % 8))
  IN [bytes EXCEPT ![i] = IF BitAnd(bytes[i], m) # 0 THEN bytes[i] - m
                          ELSE bytes[i] + m]

\* delivered by whole reads, so that the reader's buffer is filled once
FlipInputs ==
  {Input("DeserializeFrame", f, "flip",
         FlipHeaderBit(EncodeFrame(f) \o <<FramePreamble, 0>>, k),
         Len(EncodeFrame(f)), FALSE, k)
   : f \in FlipFrames, k \in 0..23}

Inputs ==
  FrameInputs \cup TruncatedInputs \cup PartInputs \cup SelectorInputs
    \cup ShortReadInputs \cup FlipInputs

(* ---------------------------------------------------------------------- *)
(* State                                                                  *)
(* ---------------------------------------------------------------------- *)

\* the calls that may run at the same time
Calls == {1, 2}

VARIABLES
  input,               \* per call: what it was called with
  pc,                  \* per call: where it is
  r,                   \* per call: its *bufio.Reader
  frame,               \* per call: the Frame being filled
  frameHeader,         \* per call: the slice DeserializeFrameStart returns
  payloadDescription,  \* per call: the slice DeserializePayloadDescriptionBlock returns
  crc,                 \* per call: the checksum computed or parsed (uint32)
  err,                 \* per call: the error returned
  curValue,            \* per call: h.curValue as read by Update
  FrameHash            \* the package-level hash: its curValue

vars == <<input, pc, r, frame, frameHeader, payloadDescription, crc, err,
          curValue, FrameHash>>

ZeroFrame ==
  [Preamble |-> 0, MessageType |-> 0, PayloadLength |-> 0, EAF |-> FALSE,
   MessageCRCType |-> 0, CRC |-> 0, MessageSubtype |-> 0, TimeTagType |-> FALSE,
   TimeTag |-> 0, SolutionID |-> 0, SolutionProcessorID |-> 0, EncryptionID |-> 0,
   EncryptionSequenceNumber |-> 0, AuthenticationIndicator |-> 0,
   EmbeddedAuthenticationLength |-> 0, MessagePayload |-> NilSlice,
   EmbeddedAuthenticationData |-> NilSlice, MessageCRC |-> Zeros(32)]

FirstStep(entry) ==
  CASE entry = "DeserializeFrame" -> "ReadPreamble"
    [] entry = "DeserializeFrameStart" -> "FrameStart"
    [] entry = "DeserializePayloadDescriptionBlock" -> "PayloadDescription"
    [] entry = "DeserializeMessageCRC" -> "MessageCRC"
    [] entry = "CalculateCRC" -> "CalculateCRC"
    [] OTHER -> "idle"

Idle == Input("none", WithHeaderCRC(ZeroFields, 0), "raw", << >>, 0, FALSE, 0)

InitCalls(ins) ==
  /\ input = ins
  /\ pc = [c \in Calls |-> FirstStep(ins[c].entry)]
  /\ r = [c \in Calls |-> NewReader(ins[c].bytes, ins[c].partial)]
  /\ frame = [c \in Calls |-> ZeroFrame]
  /\ frameHeader = [c \in Calls |-> NilSlice]
  /\ payloadDescription = [c \in Calls |-> NilSlice]
  /\ crc = [c \in Calls |-> Zeros(32)]
  /\ err = [c \in Calls |-> "nil"]
  /\ curValue = [c \in Calls |-> FrameHashParams.init]
  /\ FrameHash = FrameHashParams.init

\* one call, of any entry point, on any input
Init == \E i \in Inputs : InitCalls([c \in Calls |-> IF c = 1 THEN i ELSE Idle])

(* ---------------------------------------------------------------------- *)
(* The decoder                                                            *)
(* ---------------------------------------------------------------------- *)

\* where a call goes after a part has returned without error
After(c, next) == IF input[c].entry = "DeserializeFrame" THEN next ELSE "done"

\* the bytes read so far from the reader of call c
Position(c) == Len(input[c].bytes) - Len(Unread(r[c]))

\* ReadPreamble with the byte put back when it is not the preamble
ReadPreambleUnreads(c) ==
  /\ pc[c] = "ReadPreamble"
  /\ \E o \in ReadByte(r[c]) :
       /\ r' = [r EXCEPT ![c] =
                  IF o.err = "nil" /\ o.c # FramePreamble
                  THEN [o.b EXCEPT !.r = o.b.r - 1] ELSE o.b]
       /\ frame' = [frame EXCEPT ![c].Preamble = o.c]
       /\ err' = [err EXCEPT ![c] =
                    IF o.err # "nil" THEN o.err
                    ELSE IF o.c # FramePreamble THEN "invalid preamble" ELSE "nil"]
       /\ pc' = [pc EXCEPT ![c] =
                   IF o.err = "nil" /\ o.c = FramePreamble THEN "FrameStart" ELSE "done"]
  /\ UNCHANGED <<input, frameHeader, payloadDescription, crc, curValue, FrameHash>>

\* frame.Preamble, err = r.ReadByte() and the comparison with FramePreamble
ReadPreamble(c) ==
  /\ pc[c] = "ReadPreamble"
  /\ \E o \in ReadByte(r[c]) :
       /\ r' = [r EXCEPT ![c] = o.b]
       /\ frame' = [frame EXCEPT ![c].Preamble = o.c]
       /\ err' = [err EXCEPT ![c] =
                    IF o.err # "nil" THEN o.err
                    ELSE IF o.c # FramePreamble THEN "invalid preamble" ELSE "nil"]
       /\ pc' = [pc EXCEPT ![c] =
                   IF o.err = "nil" /\ o.c = FramePreamble THEN "FrameStart" ELSE "done"]
  /\ UNCHANGED <<input, frameHeader, payloadDescription, crc, curValue, FrameHash>>

\* the header fields of the three bytes h
HeaderFields(fr, h) ==
  [fr EXCEPT
     !.MessageType = Shr(h[1], 1),
     !.PayloadLength =
        Shr(BitAnd(Shl(BitAnd(Shl(BitAnd(h[1], 1), 9, 16), h[2]), 1, 16), h[3]), 7),
     !.EAF = (Shr(BitAnd(h[3], 64), 6) = 1),
     !.MessageCRCType = Shr(BitAnd(h[3], 48), 4),
     !.CRC = BitAnd(h[3], 15)]

\* DeserializeFrameStart up to the header checksum: Peek(3) and the fields
FrameStart(c) ==
  /\ pc[c] = "FrameStart"
  /\ \E o \in Peek(r[c], 3) :
       /\ r' = [r EXCEPT ![c] = o.b]
       /\ frameHeader' = [frameHeader EXCEPT ![c] = o.s]
       /\ err' = [err EXCEPT ![c] = o.err]
       /\ IF o.err # "nil"
          THEN /\ pc' = [pc EXCEPT ![c] = "done"]
               /\ UNCHANGED frame
          ELSE /\ pc' = [pc EXCEPT ![c] = "HashReset"]
               /\ frame' = [frame EXCEPT ![c] = HeaderFields(@, SliceBytes(o.b, o.s))]
  /\ UNCHANGED <<input, payloadDescription, crc, curValue, FrameHash>>

\* FrameHash.CalculateCRC(frameHeader[:2]): h.Reset()
HashReset(c) ==
  /\ pc[c] = "HashReset"
  /\ FrameHash' = FrameHashParams.init
  /\ pc' = [pc EXCEPT ![c] = "HashLoad"]
  /\ UNCHANGED <<input, r, frame, frameHeader, payloadDescription, crc, err, curValue>>

\* h.Update(data): the read of h.curValue
HashLoad(c) ==
  /\ pc[c] = "HashLoad"
  /\ curValue' = [curValue EXCEPT ![c] = FrameHash]
  /\ pc' = [pc EXCEPT ![c] = "HashStore"]
  /\ UNCHANGED <<input, r, frame, frameHeader, payloadDescription, crc, err, FrameHash>>

\* h.Update(data): h.curValue = h.table.UpdateCrc(curValue, data)
HashStore(c) ==
  /\ pc[c] = "HashStore"
  /\ FrameHash' = CRCUpdate(curValue[c], FrameHashParams.poly,
                            SubSeq(SliceBytes(r[c], frameHeader[c]), 1, 2))
  /\ pc' = [pc EXCEPT ![c] = "HashCRC"]
  /\ UNCHANGED <<input, r, frame, frameHeader, payloadDescription, crc, err, curValue>>

\* whether the header checksum read from the hash passes
HeaderCRCMatches(h, fr) == ToInt(XorB(h, FrameHashParams.xor)) = fr.CRC

\* HashCRC with the three bytes discarded before the comparison
HashCRCDiscardsFirst(c) ==
  /\ pc[c] = "HashCRC"
  /\ \E d \in Discard(r[c], 3) :
       /\ r' = [r EXCEPT ![c] = d.b]
       /\ IF ~HeaderCRCMatches(FrameHash, frame[c])
          THEN /\ err' = [err EXCEPT ![c] = "frame CRC did not match calculated value"]
               /\ pc' = [pc EXCEPT ![c] = "done"]
          ELSE /\ err' = [err EXCEPT ![c] = d.err]
               /\ pc' = [pc EXCEPT ![c] =
                           IF d.err = "nil" THEN After(c, "PayloadDescription")
                           ELSE "done"]
  /\ UNCHANGED <<input, frame, frameHeader, payloadDescription, crc, curValue, FrameHash>>

\* h.CRC(), the comparison with frame.CRC, and r.Discard(3)
HashCRC(c) ==
  /\ pc[c] = "HashCRC"
  /\ IF ~HeaderCRCMatches(FrameHash, frame[c])
     THEN /\ err' = [err EXCEPT ![c] = "frame CRC did not match calculated value"]
          /\ pc' = [pc EXCEPT ![c] = "done"]
          /\ UNCHANGED r
     ELSE \E d \in Discard(r[c], 3) :
            /\ r' = [r EXCEPT ![c] = d.b]
            /\ err' = [err EXCEPT ![c] = d.err]
            /\ pc' = [pc EXCEPT ![c] =
                        IF d.err = "nil" THEN After(c, "PayloadDescription") ELSE "done"]
  /\ UNCHANGED <<input, frame, frameHeader, payloadDescription, crc, curValue, FrameHash>>

\* frame.TimeTagType of the first byte of the payload description
TimeTagTypeOf(p0) == Shr(BitAnd(p0, 4), 3) = 1

\* the fields at the start of the window p (8 bytes)
DescriptionStart(fr, p) ==
  LET ttt == TimeTagTypeOf(p[1])
      tt16 == Shr(BitAnd(Shl(BitAnd(Shl(BitAnd(p[1], 7), 13, 32), p[2]), 5, 32),
                         BitAnd(p[3], 248)), 3)
      tt32 == Shr(BitAnd(Shl(BitAnd(Shl(BitAnd(Shl(tt16, 16, 32), BitAnd(p[3], 7)),
                                        13, 32), p[4]), 5, 32),
                         BitAnd(p[5], 248)), 3)
  IN [fr EXCEPT !.MessageSubtype = Shr(p[1], 4),
                !.TimeTagType = ttt,
                !.TimeTag = IF ttt THEN tt32 ELSE tt16]

\* the fields behind the time tag, q being the window from there on
DescriptionRest(fr, q) ==
  [fr EXCEPT
     !.SolutionID = Shr(BitAnd(Shl(BitAnd(q[1], 7), 4, 8), BitAnd(q[2], 240)), 4),
     !.SolutionProcessorID = BitAnd(q[2], 15),
     !.EncryptionID = Shr(BitAnd(q[3], 240), 4),
     !.EncryptionSequenceNumber =
        Shr(BitAnd(Shl(BitAnd(q[3], 15), 4, 8), BitAnd(q[4], 192)), 6),
     !.AuthenticationIndicator = Shr(BitAnd(q[4], 56), 3),
     !.EmbeddedAuthenticationLength = BitAnd(q[4], 7)]

\* the bytes of the payload description the block consumes
DescriptionLength(ttt) == IF ttt THEN 8 ELSE 6

\* the offset in the window at which the fields behind the time tag start
DescriptionRestOffset(ttt) == IF ttt THEN 4 ELSE 2

\* DeserializePayloadDescriptionBlock
PayloadDescription(c) ==
  /\ pc[c] = "PayloadDescription"
  /\ \E o \in Peek(r[c], 8) :
       IF o.err # "nil"
       THEN /\ r' = [r EXCEPT ![c] = o.b]
            /\ err' = [err EXCEPT ![c] = o.err]
            /\ pc' = [pc EXCEPT ![c] = "done"]
            /\ UNCHANGED <<frame, payloadDescription>>
       ELSE LET f1 == DescriptionStart(frame[c], SliceBytes(o.b, o.s))
                n == DescriptionLength(f1.TimeTagType)
                k == DescriptionRestOffset(f1.TimeTagType)
            IN \E d \in Discard(o.b, n) :
                 /\ r' = [r EXCEPT ![c] = d.b]
                 /\ err' = [err EXCEPT ![c] = d.err]
                 /\ payloadDescription' =
                      [payloadDescription EXCEPT ![c] = BufRef(o.s.off, n)]
                 /\ IF d.err # "nil"
                    THEN /\ frame' = [frame EXCEPT ![c] = f1]
                         /\ pc' = [pc EXCEPT ![c] = "done"]
                    ELSE /\ frame' = [frame EXCEPT ![c] =
                                        DescriptionRest(f1, BufSlice(d.b, o.s.off + k,
                                                                     o.s.off + 8))]
                         /\ pc' = [pc EXCEPT ![c] = After(c, "ReadPayload")]
  /\ UNCHANGED <<input, frameHeader, crc, curValue, FrameHash>>

\* frame.MessagePayload = make([]byte, frame.PayloadLength); r.Read(it)
ReadPayload(c) ==
  /\ pc[c] = "ReadPayload"
  /\ \E o \in Read(r[c], frame[c].PayloadLength) :
       /\ r' = [r EXCEPT ![c] = o.b]
       /\ frame' = [frame EXCEPT ![c].MessagePayload = Own(o.p)]
       /\ err' = [err EXCEPT ![c] = o.err]
       /\ pc' = [pc EXCEPT ![c] = IF o.err = "nil" THEN "ReadAuth" ELSE "done"]
  /\ UNCHANGED <<input, frameHeader, payloadDescription, crc, curValue, FrameHash>>

\* frame.EmbeddedAuthenticationData = make([]byte, length); r.Read(it)
ReadAuth(c) ==
  /\ pc[c] = "ReadAuth"
  /\ \E o \in Read(r[c], frame[c].EmbeddedAuthenticationLength) :
       /\ r' = [r EXCEPT ![c] = o.b]
       /\ frame' = [frame EXCEPT ![c].EmbeddedAuthenticationData = Own(o.p)]
       /\ err' = [err EXCEPT ![c] = o.err]
       /\ pc' = [pc EXCEPT ![c] = IF o.err = "nil" THEN "MessageCRC" ELSE "done"]
  /\ UNCHANGED <<input, frameHeader, payloadDescription, crc, curValue, FrameHash>>

\* the value DeserializeMessageCRC makes of the bytes b it read (uint32)
MessageCRCValue(t, b) ==
  CASE t = 0 -> U32(Bits(b[1], 8))
    [] t = 1 -> AndB(ShlB(U32(Bits(b[1], 8)), 8), U32(Bits(b[2], 8)))
    [] t = 2 -> AndB(ShlB(AndB(ShlB(U32(Bits(b[1], 8)), 16), U32(Bits(b[2], 8))), 8),
                     U32(Bits(b[3], 8)))
    [] t = 3 -> AndB(ShlB(AndB(ShlB(AndB(ShlB(U32(Bits(b[1], 8)), 24),
                                         U32(Bits(b[2], 8))), 16),
                               U32(Bits(b[3], 8))), 8),
                     U32(Bits(b[4], 8)))

\* DeserializeMessageCRC with the selector taken from the low two bits of t
DeserializeMessageCRCMasked(t, b) ==
  IF t % 4 = 0
  THEN {[b |-> o.b, c |-> MessageCRCValue(0, <<o.c>>),
         n |-> IF o.err = "nil" THEN 1 ELSE 0, err |-> o.err] : o \in ReadByte(b)}
  ELSE {[b |-> o.b, c |-> MessageCRCValue(t % 4, o.p), n |-> o.n, err |-> o.err]
        : o \in Read(b, (t % 4) + 1)}

\* DeserializeMessageCRC(t, r): the outcomes [b, c, n, err]; n bytes were taken
DeserializeMessageCRC(t, b) ==
  IF t = 0
  THEN {[b |-> o.b, c |-> MessageCRCValue(0, <<o.c>>),
         n |-> IF o.err = "nil" THEN 1 ELSE 0, err |-> o.err] : o \in ReadByte(b)}
  ELSE IF t \in 1..3
  THEN {[b |-> o.b, c |-> MessageCRCValue(t, o.p), n |-> o.n, err |-> o.err]
        : o \in Read(b, t + 1)}
  ELSE {[b |-> b, c |-> Zeros(32), n |-> 0, err |-> "invalid CRC Type"]}

\* the selector a call passes on
Selector(c) ==
  IF input[c].entry = "DeserializeFrame" THEN frame[c].MessageCRCType ELSE input[c].t

\* frame.MessageCRC, err = DeserializeMessageCRC(frame.MessageCRCType, r)
MessageCRC(c) ==
  /\ pc[c] = "MessageCRC"
  /\ \E o \in DeserializeMessageCRC(Selector(c), r[c]) :
       /\ r' = [r EXCEPT ![c] = o.b]
       /\ err' = [err EXCEPT ![c] = o.err]
       /\ IF input[c].entry = "DeserializeFrame"
          THEN /\ frame' = [frame EXCEPT ![c].MessageCRC = o.c]
               /\ UNCHANGED crc
          ELSE /\ crc' = [crc EXCEPT ![c] = o.c]
               /\ UNCHANGED frame
       /\ pc' = [pc EXCEPT ![c] = IF o.err = "nil" THEN After(c, "Validate") ELSE "done"]
  /\ UNCHANGED <<input, frameHeader, payloadDescription, curValue, FrameHash>>

\* append(frameHeader, append(payloadDescription, append(payload, auth...)...)...):
\* [b, s] afterwards
JoinFrame(b, hdr, pd, payload, auth) ==
  LET a2 == AppendSlice(b, pd, payload \o auth)
      a3 == AppendSlice(a2.b, hdr, SliceBytes(a2.b, a2.s))
  IN a3

\* the checksum over the joined bytes and the comparison with frame.MessageCRC
Validate(c) ==
  /\ pc[c] = "Validate"
  /\ LET j == JoinFrame(r[c], frameHeader[c], payloadDescription[c],
                        frame[c].MessagePayload.data,
                        frame[c].EmbeddedAuthenticationData.data)
         k == CalculateCRC(frame[c].MessageCRCType, SliceBytes(j.b, j.s))
     IN /\ r' = [r EXCEPT ![c] = j.b]
        /\ crc' = [crc EXCEPT ![c] = k.c]
        /\ err' = [err EXCEPT ![c] =
                     IF k.c # frame[c].MessageCRC
                     THEN "message CRC does not match computed value" ELSE "nil"]
  /\ pc' = [pc EXCEPT ![c] = "done"]
  /\ UNCHANGED <<input, frame, frameHeader, payloadDescription, curValue, FrameHash>>

\* MessageCRCType.CalculateCRC(data) called on its own
CalculateCRCCall(c) ==
  /\ pc[c] = "CalculateCRC"
  /\ LET k == CalculateCRC(input[c].t, input[c].bytes)
     IN /\ crc' = [crc EXCEPT ![c] = k.c]
        /\ err' = [err EXCEPT ![c] = k.err]
  /\ pc' = [pc EXCEPT ![c] = "done"]
  /\ UNCHANGED <<input, r, frame, frameHeader, payloadDescription, curValue, FrameHash>>

Step(c) ==
  \/ ReadPreamble(c)
  \/ FrameStart(c)
  \/ HashReset(c)
  \/ HashLoad(c)
  \/ HashStore(c)
  \/ HashCRC(c)
  \/ PayloadDescription(c)
  \/ ReadPayload(c)
  \/ ReadAuth(c)
  \/ MessageCRC(c)
  \/ Validate(c)
  \/ CalculateCRCCall(c)

Next == \E c \in Calls : Step(c)

Spec == Init /\ [][Next]_vars

(* ---------------------------------------------------------------------- *)
(* Two calls of DeserializeFrame at the same time, each on its own reader *)
(* ---------------------------------------------------------------------- *)

\* frames with an 8-bit trailing checksum, whole or with the header spoiled,
\* on readers that deliver what is asked
ConcurrentInputs ==
  {Input("DeserializeFrame", f, mut, Spoil(f, mut) \o <<FramePreamble, 0>>,
         Len(Spoil(f, mut)), FALSE, 0)
   : f \in {g \in FrameFields : g.MessageCRCType = 0 /\ g.TimeTag = 0
                                   /\ g.EmbeddedAuthenticationLength = 0},
     mut \in {"none", "header"}}

InitConcurrent == \E i \in [Calls -> ConcurrentInputs] : InitCalls(i)

StepFrame(c) ==
  \/ ReadPreamble(c)
  \/ FrameStart(c)
  \/ HashReset(c)
  \/ HashLoad(c)
  \/ HashStore(c)
  \/ HashCRC(c)
  \/ PayloadDescription(c)
  \/ ReadPayload(c)
  \/ ReadAuth(c)
  \/ MessageCRC(c)
  \/ Validate(c)

NextConcurrent == \E c \in Calls : StepFrame(c)

SpecConcurrent == InitConcurrent /\ [][NextConcurrent]_vars

(* ---------------------------------------------------------------------- *)
(* Properties                                                             *)
(* ---------------------------------------------------------------------- *)

Done(c) == pc[c] = "done"

HeaderError == "frame CRC did not match calculated value"
MessageError == "message CRC does not match computed value"

\* errors of the stream, as opposed to those of the frame
StreamErrors == {"EOF", "ErrBufferFull"}

\* the bits of a byte string, first byte first
RECURSIVE BitsOfBytes(_)
BitsOfBytes(bs) ==
  IF bs = << >> THEN << >> ELSE Bits(Head(bs), 8) \o BitsOfBytes(Tail(bs))

\* where in its stream the header of call c starts
HeaderOffset(c) == IF input[c].entry = "DeserializeFrame" THEN 1 ELSE 0

\* call c has a header of three bytes to inspect
HasHeader(c) ==
  /\ input[c].entry \in {"DeserializeFrame", "DeserializeFrameStart"}
  /\ Len(input[c].bytes) >= HeaderOffset(c) + 3
  /\ input[c].entry = "DeserializeFrame" => input[c].bytes[1] = FramePreamble

WireHeader(c) == SubSeq(input[c].bytes, HeaderOffset(c) + 1, HeaderOffset(c) + 3)

\* the checksum of the first two bytes of h differs from the low four bits
\* of the third
HeaderMismatch(h) ==
  ToInt(HashCalculate(FrameHashParams, SubSeq(h, 1, 2))) # h[3] % 16

\* C1: when the checksum of the first two header bytes differs from the
\* HeaderCRC in the third, DeserializeFrameStart returns the header error and
\* the reader is where it was: what is left to read starts with the three
\* bytes inspected, which are the bytes the slice returned holds.
C1_HeaderMismatchKeepsPosition ==
  \A c \in Calls :
    (Done(c) /\ HasHeader(c) /\ HeaderMismatch(WireHeader(c)))
      => /\ err[c] = HeaderError
         /\ Position(c) = HeaderOffset(c)
         /\ Unread(r[c]) = SubSeq(input[c].bytes, HeaderOffset(c) + 1,
                                  Len(input[c].bytes))
         /\ SliceBytes(r[c], frameHeader[c]) = WireHeader(c)

C1_Witness ==
  \E c \in Calls :
    /\ Done(c) /\ input[c].entry = "DeserializeFrameStart"
    /\ err[c] = HeaderError /\ input[c].mut = "header" /\ input[c].partial
    /\ r[c].w >= 3

\* C2: DeserializeFrame has taken exactly one byte from the reader when it
\* fails on the preamble or on the header checksum; a first byte that is not
\* 0x73 gives the preamble error with nothing read after that byte.
C2_OneByteConsumedOnEarlyFailure ==
  \A c \in Calls :
    (Done(c) /\ input[c].entry = "DeserializeFrame")
      => /\ (Len(input[c].bytes) >= 1 /\ input[c].bytes[1] # FramePreamble)
              => /\ err[c] = "invalid preamble"
                 /\ r[c] \in {o.b : o \in ReadByte(NewReader(input[c].bytes,
                                                              input[c].partial))}
         /\ (HasHeader(c) /\ HeaderMismatch(WireHeader(c))) => err[c] = HeaderError
         /\ err[c] \in {"invalid preamble", HeaderError} => Position(c) = 1

C2_Witness ==
  \E c \in Calls :
    /\ Done(c) /\ input[c].entry = "DeserializeFrame"
    /\ err[c] = HeaderError /\ Position(c) = 1
    /\ r[c].w >= 4 /\ Len(Unread(r[c])) >= 3

\* C3: when DeserializeFrame, given a stream that holds a whole frame, fails
\* on the whole-frame checksum, the whole frame has been taken from the
\* reader (preamble, header, payload description of 6 or 8 bytes,
\* PayloadLength payload bytes, authentication data, trailing checksum) and
\* what is left to read starts with the first byte after the frame.
C3_WholeFrameConsumedOnMismatch ==
  \A c \in Calls :
    (Done(c) /\ input[c].entry = "DeserializeFrame" /\ input[c].cut = input[c].len
       /\ input[c].mut \in {"none", "crc"} /\ err[c] = MessageError)
      => /\ Position(c) = input[c].len
         /\ Unread(r[c]) = SubSeq(input[c].bytes, input[c].len + 1,
                                  Len(input[c].bytes))

\* a whole well-formed frame, possibly with bytes after it
WellFormed(i) ==
  /\ i.entry = "DeserializeFrame" /\ i.mut = "none" /\ i.cut = i.len
  /\ HeaderChecksum(i.f) = i.f.HeaderCRC

\* C4: DeserializeFrame of a well-formed frame succeeds and returns every
\* field, the payload and the authentication data as they were encoded.
C4_DecodeReproducesFields ==
  \A c \in Calls :
    (Done(c) /\ WellFormed(input[c]))
      => LET f == input[c].f
             g == frame[c]
         IN /\ err[c] = "nil"
            /\ g.MessageType = f.MessageType
            /\ g.PayloadLength = f.PayloadLength
            /\ g.EAF = (f.EAF = 1)
            /\ g.MessageCRCType = f.MessageCRCType
            /\ g.CRC = f.HeaderCRC
            /\ g.MessageSubtype = f.MessageSubtype
            /\ g.TimeTagType = (f.TimeTagType = 1)
            /\ g.TimeTag = f.TimeTag
            /\ g.SolutionID = f.SolutionID
            /\ g.SolutionProcessorID = f.SolutionProcessorID
            /\ g.EncryptionID = f.EncryptionID
            /\ g.EncryptionSequenceNumber = f.EncryptionSequenceNumber
            /\ g.AuthenticationIndicator = f.AuthenticationIndicator
            /\ g.EmbeddedAuthenticationLength = f.EmbeddedAuthenticationLength
            /\ SliceBytes(r[c], g.MessagePayload) = PayloadBytes(f)
            /\ SliceBytes(r[c], g.EmbeddedAuthenticationData) = AuthBytes(f)

\* C5: DeserializeFrame returns no error only if, on the bytes it took from
\* the stream, the header checksum matches and the checksum selected by
\* MessageCRCType over header, payload description, payload and
\* authentication data equals the trailing checksum on the wire.
C5_SuccessOnlyIfBothChecksPass ==
  \A c \in Calls :
    (Done(c) /\ input[c].entry = "DeserializeFrame" /\ err[c] = "nil")
      => LET bytes == input[c].bytes
             t == Shr(bytes[4] % 64, 4)
             n == Position(c)
         IN /\ ~HeaderMismatch(WireHeader(c))
            /\ U32(HashCalculate(CRCParams(t), SubSeq(bytes, 2, n - (t + 1))))
                 = U32(BitsOfBytes(SubSeq(bytes, n - t, n)))

\* C6: a well-formed frame cut short before its end is answered with an
\* error of the stream.
C6_TruncationIsStreamError ==
  \A c \in Calls :
    (Done(c) /\ input[c].entry = "DeserializeFrame" /\ input[c].mut = "none"
       /\ input[c].cut < input[c].len /\ HeaderChecksum(input[c].f) = input[c].f.HeaderCRC)
      => err[c] \in StreamErrors

\* C7: DeserializePayloadDescriptionBlock takes and returns 6 bytes when the
\* TimeTagType bit of the segment is 0 and 8 bytes when it is 1.
C7_DescriptionLengthFollowsTimeTagType ==
  \A c \in Calls :
    (Done(c) /\ input[c].entry = "DeserializePayloadDescriptionBlock"
       /\ err[c] = "nil")
      => LET n == IF Shr(input[c].bytes[1] % 16, 3) = 1 THEN 8 ELSE 6
         IN /\ Position(c) = n
            /\ SliceBytes(r[c], payloadDescription[c]) = SubSeq(input[c].bytes, 1, n)

\* C8: DeserializeMessageCRC returns the unsigned integer whose encoding,
\* most significant byte first, is the width/8 bytes it took.
C8_MessageCRCIsBigEndian ==
  \A c \in Calls :
    (Done(c) /\ input[c].entry = "DeserializeMessageCRC" /\ input[c].t \in 0..3
       /\ err[c] = "nil" /\ Position(c) = input[c].t + 1)
      => crc[c] = U32(BitsOfBytes(SubSeq(input[c].bytes, 1, input[c].t + 1)))

\* C9: for a selector outside 0..3, DeserializeMessageCRC returns its error
\* and leaves the reader and the stream untouched, and CalculateCRC returns
\* its error and no checksum.
C9_UnknownSelectorReadsNothing ==
  \A c \in Calls :
    (Done(c) /\ input[c].t \notin 0..3)
      => /\ input[c].entry = "DeserializeMessageCRC"
              => /\ err[c] = "invalid CRC Type"
                 /\ r[c] = NewReader(input[c].bytes, input[c].partial)
                 /\ crc[c] = Zeros(32)
         /\ input[c].entry = "CalculateCRC"
              => /\ err[c] = "invalid CRC type"
                 /\ crc[c] = Zeros(32)

C9_Witness ==
  \E c \in Calls :
    /\ Done(c) /\ input[c].entry = "DeserializeMessageCRC"
    /\ input[c].t = 4 /\ Len(input[c].bytes) >= 4
    /\ err[c] = "invalid CRC Type"

\* C10: with two calls running at the same time on their own streams, each
\* call's header check gives what it gives for that call's own header, and a
\* call refused by it has taken the preamble only.
C10_ConcurrentCallsAsAlone ==
  \A c \in Calls :
    (Done(c) /\ input[c].entry = "DeserializeFrame" /\ HasHeader(c))
      => /\ (err[c] = HeaderError) = HeaderMismatch(WireHeader(c))
         /\ HeaderMismatch(WireHeader(c)) => Position(c) = 1

\* the minimal frame: no payload, no authentication data, 6-byte payload
\* description, 8-bit trailing checksum
MinimalFrame == WithHeaderCRC(ZeroFields, 0)

\* C11: a stream that holds the minimal well-formed frame and nothing else
\* is decoded without error, with PayloadLength 0, empty payload and
\* authentication data, and all of its 11 bytes taken, the last of them as
\* the trailing checksum.
C11_MinimalFrameAloneDecodes ==
  \A c \in Calls :
    (Done(c) /\ input[c].entry = "DeserializeFrame"
       /\ input[c].bytes = EncodeFrame(MinimalFrame))
      => /\ err[c] = "nil"
         /\ frame[c].PayloadLength = 0
         /\ SliceBytes(r[c], frame[c].MessagePayload) = << >>
         /\ SliceBytes(r[c], frame[c].EmbeddedAuthenticationData) = << >>
         /\ frame[c].MessageCRC = U32(Bits(input[c].bytes[11], 8))
         /\ Position(c) = 11

\* the bytes call c had taken from the reader when the payload read began
PayloadOffset(c) == 1 + 3 + DescriptionLength(frame[c].TimeTagType)

\* C12: after a successful DeserializeFrame, MessagePayload holds the
\* PayloadLength bytes of the stream that follow the payload description and
\* EmbeddedAuthenticationData holds the EmbeddedAuthenticationLength bytes
\* that follow those, however the stream delivered its data.
C12_PayloadAndAuthReadInFull ==
  \A c \in Calls :
    (Done(c) /\ input[c].entry = "DeserializeFrame" /\ err[c] = "nil")
      => LET g == frame[c]
             o == PayloadOffset(c)
         IN /\ SliceBytes(r[c], g.MessagePayload)
                 = SubSeq(input[c].bytes, o + 1, o + g.PayloadLength)
            /\ SliceBytes(r[c], g.EmbeddedAuthenticationData)
                 = SubSeq(input[c].bytes, o + g.PayloadLength + 1,
                          o + g.PayloadLength + g.EmbeddedAuthenticationLength)
            /\ Position(c) >= o + g.PayloadLength + g.EmbeddedAuthenticationLength

\* C13: when DeserializeMessageCRC returns without error for a selector
\* 0..3, it has taken exactly 1, 2, 3 or 4 bytes from the stream, however
\* the stream delivered its data.
C13_MessageCRCTakesItsWidth ==
  \A c \in Calls :
    (Done(c) /\ input[c].entry = "DeserializeMessageCRC" /\ input[c].t \in 0..3
       /\ err[c] = "nil")
      => /\ Position(c) = CRCWidth(input[c].t) \div 8
         /\ Unread(r[c]) = SubSeq(input[c].bytes, CRCWidth(input[c].t) \div 8 + 1,
                                  Len(input[c].bytes))

\* call c came to the comparison of the two whole-frame checksums
Validated(c) ==
  /\ Done(c) /\ input[c].entry = "DeserializeFrame"
  /\ err[c] \in {"nil", MessageError}

\* the bytes call c took from the stream as header and payload description,
\* followed by the payload and authentication data it stored
ConsumedBody(c) ==
  SubSeq(input[c].bytes, 2, PayloadOffset(c))
    \o SliceBytes(r[c], frame[c].MessagePayload)
    \o SliceBytes(r[c], frame[c].EmbeddedAuthenticationData)

\* C14: the checksum DeserializeFrame compares with the trailing checksum
\* is the checksum, of the kind MessageCRCType selects, of the 3 header
\* bytes, the 6 or 8 payload-description bytes, the payload and the
\* authentication data as taken from the stream, in that order, whatever the
\* reader did to its buffer in between.
C14_ChecksumOverConsumedBytes ==
  \A c \in Calls :
    Validated(c)
      => crc[c] = U32(HashCalculate(CRCParams(frame[c].MessageCRCType),
                                    ConsumedBody(c)))

\* C16: after DeserializeFrame has returned, with or without an error, what
\* the reader will hand out next is what the stream holds after the bytes
\* taken: the appends onto the slices that Peek returned have not written
\* over bytes still buffered.
C16_UnreadDataUnaltered ==
  \A c \in Calls :
    (Done(c) /\ input[c].entry = "DeserializeFrame")
      => Unread(r[c]) = SubSeq(input[c].bytes, Position(c) + 1, Len(input[c].bytes))

\* the frames whose header bits are flipped decode without error when whole
\* reads deliver them with data after them
FlipFramesDecode ==
  \A c \in Calls :
    (Done(c) /\ input[c].entry = "DeserializeFrame" /\ input[c].mut = "none"
       /\ input[c].f \in FlipFrames /\ ~input[c].partial
       /\ Len(input[c].bytes) > input[c].len)
      => err[c] = "nil"

\* C15: a frame that decodes without error is refused, by the header check
\* or by the whole-frame check, when any one bit of its 3 header bytes is
\* flipped.
C15_HeaderBitFlipRejected ==
  \A c \in Calls :
    (Done(c) /\ input[c].entry = "DeserializeFrame" /\ input[c].mut = "flip")
      => err[c] # "nil"

\* C17: whatever the first 2 header bytes are, some value of the 4-bit
\* HeaderCRC makes DeserializeFrameStart accept the header: the checksum the
\* call computed for them is one that a 4-bit field can equal.
C17_HeaderCheckSatisfiable ==
  \A c \in Calls :
    (Done(c) /\ input[c].entry = "DeserializeFrameStart"
       /\ err[c] \in {"nil", HeaderError})
      => \E n \in 0..15 : HeaderCRCMatches(FrameHash, [frame[c] EXCEPT !.CRC = n])

====
